---- MODULE Spec2Model ----
(***************************************************************************)
(* Model of build-site.py: parse_readme (the section scan, the finalize/   *)
(* merge rule, the normalisation passes, the aggregate dataset) and        *)
(* generate_html.                                                          *)
(*                                                                         *)
(* The document is read one line at a time.  re.split(r"\n## ", content)   *)
(* cuts the text in front of every line that starts with "## " except a    *)
(* line that is the first of the document (no "\n" stands before it), so   *)
(* the scan below is the sequence of loop iterations of lines 25-79 over   *)
(* the lines of the document, with the environment choosing the next line. *)
(* Text is atomic here; str.strip() and the code-point order used by       *)
(* sorted() are given as tables over the strings the model uses.           *)
(***************************************************************************)
EXTENDS Integers, Sequences, FiniteSets, TLC

\* Longest document, in lines.
MaxLines == 6

\* The two builds of the same document that are compared.
Runs == {1, 2}

Reviews == "Reviews / Tutorials / Perspectives"
TableOfContents == "Table of Contents"

\* Heading texts (what follows "## " on a heading line), before strip().
HeadingTexts ==
  {"Oncology", "Cardiology", Reviews, TableOfContents, "Table of Contents "}

\* URLs inside "- **[TITLE](URL)**".
URLs == {"u1", "u2"}

\* The payload of a "- Methodology: ..." line, cut at its commas.
MethPayloads ==
  { <<"Machine Learning", " Machine learning", " NLME">>,
    <<"Artificial Intelligence">>,
    <<"NLME", "">> }

\* datetime.now().strftime("%Y-%m-%d") on the day of the build.
Dates == {"2026-11-04"}

\* The lines a document is made of.  A title line with an empty title or
\* url stands for "- **[](u1)**" and "- **[A]()**".
HeadingLines == {[kind |-> "heading", text |-> h] : h \in HeadingTexts}
TitleLines ==
  {[kind |-> "title", title |-> "A", url |-> "u1"],
   [kind |-> "title", title |-> "B", url |-> "u1"],
   [kind |-> "title", title |-> "A", url |-> "u2"],
   [kind |-> "title", title |-> "", url |-> "u1"],
   [kind |-> "title", title |-> "A", url |-> ""]}
MethLines == {[kind |-> "meth", items |-> p] : p \in MethPayloads}
PubLines == {[kind |-> "pub", text |-> "2023Jan15 "]}
SumLines == {[kind |-> "sum", text |-> "Text."]}
OtherLines == {[kind |-> "other"]}
Lines ==
  HeadingLines \cup TitleLines \cup MethLines \cup PubLines \cup SumLines
    \cup OtherLines

VARIABLES
  pc,            \* "start", "preamble", "section", "skip", "split", "scanned"
  nlines,        \* lines of the document read so far
  category,      \* lines[0].strip() of the section being scanned
  current_paper, \* <<>> (None) or <<record>>
  papers,        \* the collection, a sequence of records
  paper_id,
  seen_urls,     \* url -> 0-based position in papers
  data,          \* per run: <<>> or <<the dict parse_readme returns>>
  html,          \* per run: <<>> or the text generate_html returns
  declared,      \* history: <<url, category>> of the title lines of scanned
                 \*   sections, in the order of their first occurrence
  catOrder,      \* history: categories of scanned sections, by first appearance
  docHeading,    \* history: <<>> or <<text of the latest "## " line, whether
                 \*   that line is the first line of the document>>
  docEntries,    \* history: <<url, heading, first>> of the title lines that
                 \*   stand under a "## " line
  orphanMeta     \* history: categories of the scanned sections in which a
                 \*   Methodology, Published or Summary line was read while
                 \*   no record was pending

vars == <<pc, nlines, category, current_paper, papers, paper_id, seen_urls,
          data, html, declared, catOrder, docHeading, docEntries, orphanMeta>>

Range(s) == {s[i] : i \in DOMAIN s}

----------------------------------------------------------------------------
\* str.strip() over the strings of the model.
Strip(s) ==
  CASE s = " Machine learning" -> "Machine learning"
    [] s = " NLME" -> "NLME"
    [] s = "Table of Contents " -> "Table of Contents"
    [] s = "2023Jan15 " -> "2023Jan15"
    [] OTHER -> s

\* Code-point order of the strings sorted() meets.
Rank(s) ==
  CASE s = "" -> 0
    [] s = "Artificial Intelligence" -> 1
    [] s = "Cardiology" -> 2
    [] s = "Machine Learning" -> 3
    [] s = "Machine learning" -> 4
    [] s = "NLME" -> 5
    [] s = "Oncology" -> 6
    [] s = Reviews -> 7
    [] s = TableOfContents -> 8

\* re.match(r"- \*\*\[(.+?)\]\((.+?)\)\*\*", line): both groups need a character.
title_match(line) == line.kind = "title" /\ line.title # "" /\ line.url # ""

IsHeading(line) == line.kind = "heading"

\* The kinds of line that meth_match, pub_match and sum_match of lines 57-59 match.
MetaKinds == {"meth", "pub", "sum"}

\* [m.strip() for m in meth_match.group(1).split(",")]
StripAll(items) == [i \in DOMAIN items |-> Strip(items[i])]

\* The dict of lines 47-55.
NewPaper(id, line, cat) ==
  [id |-> id, title |-> line.title, url |-> line.url,
   methodologies |-> <<>>, applications |-> <<cat>>,
   published |-> "", summary |-> ""]

\* Variants of the finalize/merge rule that a slip in lines 37-45 would give:
\* without the test "url in seen_urls"; with the duplicate's fields written
\* over the record; without the test "category not in applications"; with
\* paper_id advanced on a duplicate too.
FinalizeDropsSeenCheck(cp, cat, ps, seen, id) ==
  [papers |-> Append(ps, cp),
   seen_urls |-> [u \in DOMAIN seen \cup {cp.url} |-> IF u = cp.url THEN Len(ps) ELSE seen[u]],
   paper_id |-> id + 1]

FinalizeOverwrites(cp, cat, ps, seen, id) ==
  IF cp.url \in DOMAIN seen
    THEN LET e == ps[seen[cp.url] + 1]
         IN [papers |-> [ps EXCEPT ![seen[cp.url] + 1] =
                           [cp EXCEPT !.id = e.id,
                                      !.applications =
                                        IF cat \in Range(e.applications)
                                          THEN e.applications
                                          ELSE Append(e.applications, cat)]],
             seen_urls |-> seen, paper_id |-> id]
    ELSE [papers |-> Append(ps, cp),
          seen_urls |-> [u \in DOMAIN seen \cup {cp.url} |-> IF u = cp.url THEN Len(ps) ELSE seen[u]],
          paper_id |-> id + 1]

FinalizeAlwaysAppendsCategory(cp, cat, ps, seen, id) ==
  IF cp.url \in DOMAIN seen
    THEN [papers |-> [ps EXCEPT ![seen[cp.url] + 1].applications = Append(@, cat)],
          seen_urls |-> seen, paper_id |-> id]
    ELSE [papers |-> Append(ps, cp),
          seen_urls |-> [u \in DOMAIN seen \cup {cp.url} |-> IF u = cp.url THEN Len(ps) ELSE seen[u]],
          paper_id |-> id + 1]

FinalizeCountsDuplicates(cp, cat, ps, seen, id) ==
  IF cp.url \in DOMAIN seen
    THEN [papers |-> [ps EXCEPT ![seen[cp.url] + 1].applications =
                        IF cat \in Range(@) THEN @ ELSE Append(@, cat)],
          seen_urls |-> seen, paper_id |-> id + 1]
    ELSE [papers |-> Append(ps, cp),
          seen_urls |-> [u \in DOMAIN seen \cup {cp.url} |-> IF u = cp.url THEN Len(ps) ELSE seen[u]],
          paper_id |-> id + 1]

\* The finalize/merge rule, lines 37-45 and again 71-79: the candidate cp is
\* appended when its url is new, else only its category reaches the record
\* already there.
Finalize(cp, cat, ps, seen, id) ==
  IF cp.url \in DOMAIN seen
    THEN [papers |-> [ps EXCEPT ![seen[cp.url] + 1].applications =
                        IF cat \in Range(@) THEN @ ELSE Append(@, cat)],
          seen_urls |-> seen, paper_id |-> id]
    ELSE [papers |-> Append(ps, cp),
          seen_urls |-> [u \in DOMAIN seen \cup {cp.url} |-> IF u = cp.url THEN Len(ps) ELSE seen[u]],
          paper_id |-> id + 1]

\* "if current_paper: <finalize>" of lines 36 and 70.
Flush(cp, cat, ps, seen, id) ==
  IF cp = <<>>
    THEN [papers |-> ps, seen_urls |-> seen, paper_id |-> id]
    ELSE Finalize(cp[1], cat, ps, seen, id)

----------------------------------------------------------------------------
Init ==
  /\ pc = "start"
  /\ nlines = 0
  /\ category = ""
  /\ current_paper = <<>>
  /\ papers = <<>>
  /\ paper_id = 0
  /\ seen_urls = [u \in {} |-> 0]
  /\ data = [r \in Runs |-> <<>>]
  /\ html = [r \in Runs |-> <<>>]
  /\ declared = <<>>
  /\ catOrder = <<>>
  /\ docHeading = <<>>
  /\ docEntries = {}
  /\ orphanMeta = {}

\* History of the document as its headings read: a title line under the
\* latest "## " line, whichever chunk of the split that line fell into.
NoteEntry(line) ==
  docEntries' =
    IF title_match(line) /\ docHeading # <<>>
      THEN docEntries \cup {<<line.url, docHeading[1], docHeading[2]>>}
      ELSE docEntries

ScanState == <<current_paper, papers, paper_id, seen_urls>>

\* The first line of the document.  No "\n" precedes it, so even a "## "
\* line here is not a split point: it opens sections[0].
FirstLine(line) ==
  /\ pc = "start"
  /\ nlines < MaxLines
  /\ pc' = "preamble"
  /\ nlines' = nlines + 1
  /\ docHeading' = IF IsHeading(line) THEN <<Strip(line.text), TRUE>> ELSE docHeading
  /\ NoteEntry(line)
  /\ UNCHANGED <<category, ScanState, data, html, declared, catOrder, orphanMeta>>

\* A further line of sections[0], which "for section in sections[1:]" never visits.
PreambleLine(line) ==
  /\ pc = "preamble"
  /\ nlines < MaxLines
  /\ ~IsHeading(line)
  /\ nlines' = nlines + 1
  /\ NoteEntry(line)
  /\ UNCHANGED <<pc, category, ScanState, data, html, declared, catOrder, docHeading, orphanMeta>>

\* Variant of BeginSection without the test of line 29.
BeginSectionScansContents(line) ==
  /\ pc \in {"preamble", "split", "skip"}
  /\ nlines < MaxLines
  /\ IsHeading(line)
  /\ nlines' = nlines + 1
  /\ category' = Strip(line.text)
  /\ pc' = "section"
  /\ current_paper' = <<>>
  /\ catOrder' = IF category' \in Range(catOrder) THEN catOrder ELSE Append(catOrder, category')
  /\ docHeading' = <<Strip(line.text), FALSE>>
  /\ UNCHANGED <<papers, paper_id, seen_urls, data, html, declared, docEntries, orphanMeta>>

\* A "## " line after the first line: the next element of sections[1:]
\* (lines 25-32).  A "Table of Contents" section is left by "continue".
BeginSection(line) ==
  /\ pc \in {"preamble", "split", "skip"}
  /\ nlines < MaxLines
  /\ IsHeading(line)
  /\ nlines' = nlines + 1
  /\ category' = Strip(line.text)
  /\ pc' = IF category' = TableOfContents THEN "skip" ELSE "section"
  /\ current_paper' = IF category' = TableOfContents THEN current_paper ELSE <<>>
  /\ catOrder' =
       IF category' = TableOfContents \/ category' \in Range(catOrder)
         THEN catOrder
         ELSE Append(catOrder, category')
  /\ docHeading' = <<Strip(line.text), FALSE>>
  /\ UNCHANGED <<papers, paper_id, seen_urls, data, html, declared, docEntries, orphanMeta>>

\* A line of a skipped section.
SkipLine(line) ==
  /\ pc = "skip"
  /\ nlines < MaxLines
  /\ ~IsHeading(line)
  /\ nlines' = nlines + 1
  /\ NoteEntry(line)
  /\ UNCHANGED <<pc, category, ScanState, data, html, declared, catOrder, docHeading, orphanMeta>>

\* Lines 34-55: a title line finalizes the pending record and starts the next.
TitleLine(line) ==
  /\ pc = "section"
  /\ nlines < MaxLines
  /\ ~IsHeading(line)
  /\ title_match(line)
  /\ nlines' = nlines + 1
  /\ LET f == Flush(current_paper, category, papers, seen_urls, paper_id)
     IN /\ papers' = f.papers
        /\ seen_urls' = f.seen_urls
        /\ paper_id' = f.paper_id
        /\ current_paper' = <<NewPaper(f.paper_id, line, category)>>
  /\ declared' =
       IF <<line.url, category>> \in Range(declared)
         THEN declared
         ELSE Append(declared, <<line.url, category>>)
  /\ NoteEntry(line)
  /\ UNCHANGED <<pc, category, data, html, catOrder, docHeading, orphanMeta>>

\* Variant of MetaLine in which a metadata line read while no record is
\* pending is applied to the last record of the collection.
MetaLineFallsBackToLastRecord(line) ==
  /\ pc = "section"
  /\ nlines < MaxLines
  /\ ~IsHeading(line)
  /\ ~title_match(line)
  /\ nlines' = nlines + 1
  /\ current_paper' =
       IF current_paper = <<>> THEN current_paper
       ELSE CASE line.kind = "meth" ->
                   <<[current_paper[1] EXCEPT !.methodologies = StripAll(line.items)]>>
              [] line.kind = "pub" ->
                   <<[current_paper[1] EXCEPT !.published = Strip(line.text)]>>
              [] line.kind = "sum" ->
                   <<[current_paper[1] EXCEPT !.summary = Strip(line.text)]>>
              [] OTHER -> current_paper
  /\ papers' =
       IF current_paper = <<>> /\ papers # <<>>
         THEN CASE line.kind = "meth" ->
                     [papers EXCEPT ![Len(papers)].methodologies = StripAll(line.items)]
                [] line.kind = "pub" ->
                     [papers EXCEPT ![Len(papers)].published = Strip(line.text)]
                [] line.kind = "sum" ->
                     [papers EXCEPT ![Len(papers)].summary = Strip(line.text)]
                [] OTHER -> papers
         ELSE papers
  /\ orphanMeta' =
       IF current_paper = <<>> /\ line.kind \in MetaKinds
         THEN orphanMeta \cup {category}
         ELSE orphanMeta
  /\ NoteEntry(line)
  /\ UNCHANGED <<pc, category, paper_id, seen_urls, data, html,
                 declared, catOrder, docHeading>>

\* Lines 56-68, and the lines no pattern matches.
MetaLine(line) ==
  /\ pc = "section"
  /\ nlines < MaxLines
  /\ ~IsHeading(line)
  /\ ~title_match(line)
  /\ nlines' = nlines + 1
  /\ current_paper' =
       IF current_paper = <<>> THEN current_paper
       ELSE CASE line.kind = "meth" ->
                   <<[current_paper[1] EXCEPT !.methodologies = StripAll(line.items)]>>
              [] line.kind = "pub" ->
                   <<[current_paper[1] EXCEPT !.published = Strip(line.text)]>>
              [] line.kind = "sum" ->
                   <<[current_paper[1] EXCEPT !.summary = Strip(line.text)]>>
              [] OTHER -> current_paper
  /\ orphanMeta' =
       IF current_paper = <<>> /\ line.kind \in MetaKinds
         THEN orphanMeta \cup {category}
         ELSE orphanMeta
  /\ NoteEntry(line)
  /\ UNCHANGED <<pc, category, papers, paper_id, seen_urls, data, html,
                 declared, catOrder, docHeading>>

\* Variant of EndSection without the flush of lines 70-79.
EndSectionWithoutFlush ==
  /\ pc = "section"
  /\ pc' = "split"
  /\ UNCHANGED <<nlines, category, ScanState, data, html, declared,
                 catOrder, docHeading, docEntries, orphanMeta>>

\* Lines 70-79: the section has no more lines; the pending record is flushed.
EndSection ==
  /\ pc = "section"
  /\ pc' = "split"
  /\ LET f == Flush(current_paper, category, papers, seen_urls, paper_id)
     IN /\ papers' = f.papers
        /\ seen_urls' = f.seen_urls
        /\ paper_id' = f.paper_id
  /\ UNCHANGED <<nlines, category, current_paper, data, html, declared,
                 catOrder, docHeading, docEntries, orphanMeta>>

\* sections[1:] is exhausted.
EndOfDocument ==
  /\ pc \in {"start", "preamble", "split", "skip"}
  /\ pc' = "scanned"
  /\ UNCHANGED <<nlines, category, ScanState, data, html, declared,
                 catOrder, docHeading, docEntries, orphanMeta>>

Scan ==
  \E line \in Lines :
    \/ FirstLine(line)
    \/ PreambleLine(line)
    \/ BeginSection(line)
    \/ SkipLine(line)
    \/ TitleLine(line)
    \/ MetaLine(line)

----------------------------------------------------------------------------
\* meth_remap of line 82; <<>> stands for None.
meth_remap ==
  [m \in {"Machine Learning", "Artificial Intelligence"} |->
     IF m = "Machine Learning" THEN <<"Machine learning">> ELSE <<>>]

\* Lines 84-90: the cleaned list of one paper, in the order of its tags.
RECURSIVE cleaned(_)
cleaned(ms) ==
  IF ms = <<>> THEN <<>>
  ELSE (IF Head(ms) \in DOMAIN meth_remap THEN meth_remap[Head(ms)] ELSE <<Head(ms)>>)
         \o cleaned(Tail(ms))

\* The lists a set can be turned into by list(set(...)): the iteration order
\* of a set of str follows the per-process string hash seed, so every order
\* of the distinct elements is an outcome.
ListOfSet(S) ==
  {o \in [1..Cardinality(S) -> S] : Range(o) = S}

\* Variant of Normalize that deduplicates the raw tags and renames after.
NormalizeDedupsFirst(p) ==
  {[p EXCEPT !.methodologies = cleaned(o)] : o \in ListOfSet(Range(p.methodologies))}

\* Line 91 for one paper: paper["methodologies"] = list(set(cleaned)).
Normalize(p) ==
  {[p EXCEPT !.methodologies = o] : o \in ListOfSet(Range(cleaned(p.methodologies)))}

\* Variant of TagReview without the filter of lines 96-98.
TagReviewKeepsLabel(p) ==
  [id |-> p.id, title |-> p.title, url |-> p.url,
   methodologies |-> p.methodologies,
   applications |-> p.applications,
   published |-> p.published, summary |-> p.summary,
   is_review |-> Reviews \in Range(p.applications)]

\* Lines 95-98 for one paper.
TagReview(p) ==
  [id |-> p.id, title |-> p.title, url |-> p.url,
   methodologies |-> p.methodologies,
   applications |-> SelectSeq(p.applications, LAMBDA a : a # Reviews),
   published |-> p.published, summary |-> p.summary,
   is_review |-> Reviews \in Range(p.applications)]

\* Lines 83-98 over the collection: every list the two loops can leave.
RECURSIVE NormalizedPapers(_)
NormalizedPapers(ps) ==
  IF ps = <<>> THEN {<<>>}
  ELSE {<<TagReview(p)>> \o rest :
          p \in Normalize(Head(ps)), rest \in NormalizedPapers(Tail(ps))}

\* sorted(set(...)): ascending code-point order.
RECURSIVE sorted(_)
sorted(S) ==
  IF S = {} THEN <<>>
  ELSE LET least == CHOOSE x \in S : \A y \in S : Rank(x) <= Rank(y)
       IN <<least>> \o sorted(S \ {least})

\* Variant of all_meths that misses the last paper of the collection.
all_methsSkipsLastPaper(ps) ==
  sorted({m \in UNION {Range(ps[i].methodologies) : i \in DOMAIN ps \ {Len(ps)}} : m # ""})

\* Lines 101-102.
all_apps(ps) == sorted(UNION {Range(ps[i].applications) : i \in DOMAIN ps})
all_meths(ps) ==
  sorted({m \in UNION {Range(ps[i].methodologies) : i \in DOMAIN ps} : m # ""})

\* Variant of Count with "or" for the "and" of line 113.
CountEither(ps, app, meth) ==
  Len(SelectSeq(ps, LAMBDA p : app \in Range(p.applications)
                                 \/ meth \in Range(p.methodologies)))

\* Lines 109-115: len([p for p in papers if app in ... and meth in ...]).
Count(ps, app, meth) ==
  Len(SelectSeq(ps, LAMBDA p : app \in Range(p.applications)
                                 /\ meth \in Range(p.methodologies)))

\* Lines 105-116.
Matrix(ps) ==
  [app \in Range(all_apps(ps)) |->
     [meth \in Range(all_meths(ps)) |-> Count(ps, app, meth)]]

\* The dict of lines 120-126.
Dataset(ps, date) ==
  [papers |-> ps, applications |-> all_apps(ps), methodologies |-> all_meths(ps),
   matrix |-> Matrix(ps), lastUpdated |-> date]

\* json.dumps(data, separators=(",", ":")) as the sequence of its tokens, in
\* the insertion order of the dicts and the order of the lists.
DumpList(xs) == <<"[">> \o xs \o <<"]">>

DumpPaper(p) ==
  <<"{", "id", ToString(p.id), "title", p.title, "url", p.url, "methodologies">>
    \o DumpList(p.methodologies) \o <<"applications">> \o DumpList(p.applications)
    \o <<"published", p.published, "summary", p.summary,
         "is_review", IF p.is_review THEN "true" ELSE "false", "}">>

RECURSIVE DumpPapers(_)
DumpPapers(ps) ==
  IF ps = <<>> THEN <<>> ELSE DumpPaper(Head(ps)) \o DumpPapers(Tail(ps))

RECURSIVE DumpRow(_, _)
DumpRow(row, meths) ==
  IF meths = <<>> THEN <<>>
  ELSE <<Head(meths), ToString(row[Head(meths)])>> \o DumpRow(row, Tail(meths))

RECURSIVE DumpMatrix(_, _, _)
DumpMatrix(matrix, apps, meths) ==
  IF apps = <<>> THEN <<>>
  ELSE <<Head(apps), "{">> \o DumpRow(matrix[Head(apps)], meths) \o <<"}">>
         \o DumpMatrix(matrix, Tail(apps), meths)

dumps(d) ==
  <<"{", "papers", "[">> \o DumpPapers(d.papers) \o <<"]", "applications">>
    \o DumpList(d.applications) \o <<"methodologies">> \o DumpList(d.methodologies)
    \o <<"matrix", "{">> \o DumpMatrix(d.matrix, d.applications, d.methodologies)
    \o <<"}", "lastUpdated", d.lastUpdated, "}">>

\* Lines 129-369: the static template around the serialized dataset.
generate_html(d) == <<"<!DOCTYPE html>">> \o dumps(d) \o <<"</html>">>

\* Lines 81-126 and main's call of generate_html, in build r of the document.
Finish(r) ==
  /\ pc = "scanned"
  /\ data[r] = <<>>
  /\ \E ps \in NormalizedPapers(papers), date \in Dates :
       /\ data' = [data EXCEPT ![r] = <<Dataset(ps, date)>>]
       /\ html' = [html EXCEPT ![r] = generate_html(Dataset(ps, date))]
  /\ UNCHANGED <<pc, nlines, category, ScanState, declared, catOrder,
                 docHeading, docEntries, orphanMeta>>

\* One build of the document.
Next == Scan \/ EndSection \/ EndOfDocument \/ Finish(1)

Spec == Init /\ [][Next]_vars

\* Two builds of the same document, as two processes would run them.
Build == \E r \in Runs : Finish(r)

NextTwoBuilds == Scan \/ EndSection \/ EndOfDocument \/ Build

SpecTwoBuilds == Init /\ [][NextTwoBuilds]_vars


----------------------------------------------------------------------------
\* What the claims speak of.

\* The builds that have returned, and what each returned.
Built == {r \in Runs : data[r] # <<>>}
Out(r) == data[r][1]

\* The categories of the scanned sections in which a title line declared url
\* u, in the order of the first such title line per category.
DeclaredUnder(u) ==
  LET mine == SelectSeq(declared, LAMBDA d : d[1] = u)
  IN [i \in DOMAIN mine |-> mine[i][2]]

WithoutReviews(cs) == SelectSeq(cs, LAMBDA c : c # Reviews)

Occurrences(xs, x) == Cardinality({i \in DOMAIN xs : xs[i] = x})

UniqueNonEmpty(ps) ==
  /\ \A i, j \in DOMAIN ps : ps[i].url = ps[j].url => i = j
  /\ \A i \in DOMAIN ps : ps[i].title # "" /\ ps[i].url # ""

\* C1: after every line of the scan, and in what every build returns, no two
\* records of the collection share a url and every record has a non-empty
\* title and a non-empty url.
C1_UniqueNonEmptyRecords ==
  /\ UniqueNonEmpty(papers)
  /\ \A r \in Built : UniqueNonEmpty(Out(r).papers)

\* A build has returned for a document that declares u1 three times, in two
\* sections and under two titles, next to u2.
C1_Witness ==
  /\ 1 \in Built
  /\ Len(DeclaredUnder("u1")) = 2
  /\ Len(Out(1).papers) = 2
  /\ \E i \in DOMAIN papers : papers[i].url = "u1" /\ papers[i].title = "B"

\* C2 as stated: a url declared under two or more categories other than the
\* reviews label has exactly one record, whose applications are those
\* categories, once each, in the order in which the categories first appear
\* in the document.
C2_OrderedByCategoryAppearance ==
  \A r \in Built : \A u \in URLs :
    LET cats == Range(WithoutReviews(DeclaredUnder(u)))
    IN Cardinality(cats) >= 2 =>
         /\ Cardinality({i \in DOMAIN Out(r).papers : Out(r).papers[i].url = u}) = 1
         /\ \A i \in DOMAIN Out(r).papers :
              Out(r).papers[i].url = u =>
                Out(r).papers[i].applications = SelectSeq(catOrder, LAMBDA c : c \in cats)

\* C2 amended: a url declared in scanned sections has exactly one record,
\* whose applications are the categories it was declared under other than
\* the reviews label, once each, in the order of the first title line that
\* declares the url under each category.
C2_OrderedByFirstDeclaration ==
  \A r \in Built : \A u \in URLs :
    DeclaredUnder(u) # <<>> =>
      /\ Cardinality({i \in DOMAIN Out(r).papers : Out(r).papers[i].url = u}) = 1
      /\ \A i \in DOMAIN Out(r).papers :
           Out(r).papers[i].url = u =>
             /\ Out(r).papers[i].applications = WithoutReviews(DeclaredUnder(u))
             /\ \A c \in Range(DeclaredUnder(u)) \ {Reviews} :
                  Occurrences(Out(r).papers[i].applications, c) = 1

\* A build has returned for a document whose first scanned section is
\* Oncology, and in which u1 is declared under Cardiology first (title A) and
\* under Oncology after that (title B, the candidate that was discarded).
C2_Witness ==
  /\ 1 \in Built
  /\ catOrder = <<"Oncology", "Cardiology">>
  /\ DeclaredUnder("u1") = <<"Cardiology", "Oncology">>
  /\ Out(1).papers[1].applications = <<"Cardiology", "Oncology">>
  /\ current_paper # <<>> /\ current_paper[1].url = "u1" /\ current_paper[1].title = "B"
  /\ Out(1).papers[1].title = "A"

\* C3: in what a build returns, a record is a review exactly when a title
\* line of a scanned reviews section declared its url; the reviews label is
\* in no applications list, of a record or of the aggregate; a url declared
\* under the reviews label alone has no applications, and one declared under
\* it and one other category keeps exactly the other.
C3_ReviewFlagAndLabel ==
  \A r \in Built :
    /\ Reviews \notin Range(Out(r).applications)
    /\ \A i \in DOMAIN Out(r).papers :
         LET p == Out(r).papers[i]
             cats == Range(DeclaredUnder(p.url))
         IN /\ p.is_review <=> Reviews \in cats
            /\ Reviews \notin Range(p.applications)
            /\ cats = {Reviews} => p.applications = <<>>
            /\ \A c \in cats :
                 (c # Reviews /\ cats = {Reviews, c}) => p.applications = <<c>>

\* A build has returned one record declared under the reviews label alone
\* and one declared under Oncology and then the reviews label.
C3_Witness ==
  /\ 1 \in Built
  /\ \E i, j \in DOMAIN Out(1).papers :
       /\ Out(1).papers[i].is_review /\ Out(1).papers[i].applications = <<>>
       /\ Out(1).papers[j].is_review /\ Out(1).papers[j].applications = <<"Oncology">>
       /\ DeclaredUnder(Out(1).papers[j].url) = <<"Oncology", Reviews>>

\* C4: in what a build returns, the methodologies of a record are the tags
\* of its Methodology line renamed and then deduplicated: no tag twice,
\* neither "Machine Learning" nor "Artificial Intelligence", one "Machine
\* learning" when the line has "Machine Learning" or "Machine learning" or
\* both, every other tag of the line unchanged, and nothing else, so a line
\* of "Artificial Intelligence" alone leaves none.
C4_RemapThenDedup ==
  \A r \in Built : \A i \in DOMAIN Out(r).papers :
    LET raw == Range(papers[i].methodologies)
        out == Out(r).papers[i].methodologies
        renamed == {"Machine Learning", "Artificial Intelligence"}
    IN /\ \A m \in Range(out) : Occurrences(out, m) = 1
       /\ Range(out) \cap renamed = {}
       /\ (raw \cap {"Machine Learning", "Machine learning"} # {})
            <=> Occurrences(out, "Machine learning") = 1
       /\ \A m \in raw \ renamed : m \in Range(out)
       /\ \A m \in Range(out) : m \in raw \/ m = "Machine learning"
       /\ raw = {"Artificial Intelligence"} => out = <<>>

\* A build has returned a record whose line listed "Machine Learning" and
\* "Machine learning", and one whose line listed "Artificial Intelligence".
C4_Witness ==
  /\ 1 \in Built
  /\ \E i, j \in DOMAIN papers :
       /\ {"Machine Learning", "Machine learning"} \subseteq Range(papers[i].methodologies)
       /\ Occurrences(Out(1).papers[i].methodologies, "Machine learning") = 1
       /\ papers[j].methodologies = <<"Artificial Intelligence">>
       /\ Out(1).papers[j].methodologies = <<>>

\* C5: in what a build returns, the matrix has exactly one row per entry of
\* the aggregate applications and in it one entry per aggregate methodology,
\* the number of records that carry both; no records give no applications,
\* no methodologies and no rows.
C5_MatrixCounts ==
  \A r \in Built :
    LET d == Out(r)
    IN /\ DOMAIN d.matrix = Range(d.applications)
       /\ \A a \in DOMAIN d.matrix :
            /\ DOMAIN d.matrix[a] = Range(d.methodologies)
            /\ \A m \in DOMAIN d.matrix[a] :
                 d.matrix[a][m] =
                   Cardinality({i \in DOMAIN d.papers :
                                  /\ a \in Range(d.papers[i].applications)
                                  /\ m \in Range(d.papers[i].methodologies)})
       /\ d.papers = <<>> =>
            d.applications = <<>> /\ d.methodologies = <<>> /\ DOMAIN d.matrix = {}

\* A build has returned a matrix with a row that holds a count of two and a
\* count of one.
C5_Witness ==
  /\ 1 \in Built
  /\ \E a \in DOMAIN Out(1).matrix :
       /\ {"NLME", "Machine learning"} \subseteq DOMAIN Out(1).matrix[a]
       /\ Out(1).matrix[a]["NLME"] = 2
       /\ Out(1).matrix[a]["Machine learning"] = 1

\* C6: while the latest "## " line after the first line reads "Table of
\* Contents", no step adds or changes a record, marks a url as seen or
\* consumes an identifier, and no line starts a pending record.
C6_TableOfContentsSkipped ==
  [][docHeading = <<TableOfContents, FALSE>> =>
       /\ UNCHANGED <<papers, seen_urls, paper_id>>
       /\ (docHeading' = docHeading => UNCHANGED current_paper)]_vars

\* Five lines are read: a first line, "## Table of Contents", a title line
\* for u1, "## Oncology", the title line "B" for u1; the Oncology section
\* has ended and its record, the first, has title "B" and id 0.
C6_Witness ==
  /\ pc = "split"
  /\ nlines = 5
  /\ <<"u1", TableOfContents, FALSE>> \in docEntries
  /\ docHeading = <<"Oncology", FALSE>>
  /\ Len(papers) = 1
  /\ papers[1].url = "u1" /\ papers[1].title = "B" /\ papers[1].id = 0
  /\ papers[1].applications = <<"Oncology">>
  /\ seen_urls = [u \in {"u1"} |-> 0]

\* C7: a step taken while the pending record's url is already in the
\* collection leaves the length of the collection and every record as they
\* are, but for the applications of the record with that url, which stay or
\* gain the current category at their end.
C7_DuplicateOnlyAddsCategory ==
  [][(current_paper # <<>> /\ current_paper[1].url \in DOMAIN seen_urls) =>
       /\ Len(papers') = Len(papers)
       /\ \A i \in DOMAIN papers :
            IF i = seen_urls[current_paper[1].url] + 1
              THEN /\ papers'[i] = [papers[i] EXCEPT !.applications = papers'[i].applications]
                   /\ papers'[i].applications
                        \in {papers[i].applications, Append(papers[i].applications, category)}
              ELSE papers'[i] = papers[i]]_vars

\* The Cardiology section has ended with the flush of a candidate titled "B"
\* with no methodologies, whose url the Oncology section had declared with
\* title "A" and a Methodology line: the record kept both and gained
\* Cardiology.
C7_Witness ==
  /\ pc = "split"
  /\ category = "Cardiology"
  /\ Len(papers) = 1
  /\ current_paper # <<>>
  /\ current_paper[1].url = papers[1].url
  /\ current_paper[1].title = "B" /\ papers[1].title = "A"
  /\ current_paper[1].methodologies = <<>> /\ papers[1].methodologies # <<>>
  /\ papers[1].applications = <<"Oncology", "Cardiology">>

SequentialIds(ps) == \A i \in DOMAIN ps : ps[i].id = i - 1

\* C8: after every line of the scan, and in what every build returns, the
\* record at 0-based position i has id i.
C8_SequentialIds ==
  /\ SequentialIds(papers)
  /\ \A r \in Built : SequentialIds(Out(r).papers)

\* The Cardiology section has ended; in it a title line for u1, a url the
\* Oncology section had declared, made a candidate that was discarded, and
\* the title line after it made the second record, with id 1.
C8_Witness ==
  /\ pc = "split"
  /\ category = "Cardiology"
  /\ Len(papers) = 2
  /\ papers[1].applications = <<"Oncology", "Cardiology">>
  /\ papers[2].applications = <<"Cardiology">>
  /\ current_paper = <<papers[2]>>
  /\ papers[2].id = 1

\* C9 as stated: in what a build returns, every title line that stands under
\* a "## " line other than "Table of Contents", the first line of the
\* document included, has a record declared under that heading.
C9_EveryHeadedSectionScanned ==
  \A r \in Built : \A e \in docEntries :
    e[2] # TableOfContents =>
      \E i \in DOMAIN Out(r).papers :
        /\ Out(r).papers[i].url = e[1]
        /\ \/ e[2] \in Range(Out(r).papers[i].applications)
           \/ e[2] = Reviews /\ Out(r).papers[i].is_review

\* C10 as stated: two builds of the same document on the same date return
\* the same text.
C10_SameInputSameOutput ==
  (Built = Runs /\ Out(1).lastUpdated = Out(2).lastUpdated) => html[1] = html[2]

\* A record of ps with url d[1] has d[2] among its applications.
Recorded(ps, d) ==
  \E i \in DOMAIN ps : ps[i].url = d[1] /\ d[2] \in Range(ps[i].applications)

\* C11: no title line of a scanned section is lost.  While a section is
\* scanned, every declared <<url, category>> is in the collection or is the
\* pending record of that section; once the section has ended it is in the
\* collection; and in what a build returns there is a record with that url
\* that has the category among its applications, or is a review when the
\* category is the reviews label.
C11_NoPendingRecordLost ==
  /\ \A d \in Range(declared) :
       \/ Recorded(papers, d)
       \/ /\ pc = "section"
          /\ current_paper # <<>>
          /\ current_paper[1].url = d[1]
          /\ category = d[2]
  /\ \A r \in Built : \A d \in Range(declared) :
       \E i \in DOMAIN Out(r).papers :
         /\ Out(r).papers[i].url = d[1]
         /\ \/ d[2] \in Range(Out(r).papers[i].applications)
            \/ d[2] = Reviews /\ Out(r).papers[i].is_review

\* A build has returned for a document whose last section declares u1 and
\* then, on its last title line, u2 under the reviews label: the first was
\* finalized by the title line after it, the second by the flush at the end
\* of the section.
C11_Witness ==
  /\ 1 \in Built
  /\ declared = <<<<"u1", Reviews>>, <<"u2", Reviews>>>>
  /\ Len(Out(1).papers) = 2
  /\ Out(1).papers[2].url = "u2" /\ Out(1).papers[2].is_review
  /\ current_paper = <<papers[2]>>

\* A line of a scanned section that the claim says is ignored: it matches
\* neither the title pattern nor a metadata pattern, or it matches a
\* metadata pattern while no record is pending.
Ignored(line) ==
  /\ ~IsHeading(line)
  /\ ~title_match(line)
  /\ line.kind \notin MetaKinds \/ current_paper = <<>>

\* C12: the step that processes an ignored line of a scanned section leaves
\* the collection, the seen-url index, the id counter and the pending record
\* as they are; the step that starts a scanned section leaves no record
\* pending; and a record pending in a scanned section was begun by a title
\* line of that section (its applications are the section's category alone).
C12_IgnoredLinesChangeNothing ==
  [][/\ \A line \in Lines :
          (MetaLine(line) /\ Ignored(line)) =>
            UNCHANGED <<papers, seen_urls, paper_id, current_paper>>
     /\ \A line \in Lines :
          (BeginSection(line) /\ pc' = "section") => current_paper' = <<>>
     /\ (pc' = "section" /\ current_paper' # <<>>) =>
          current_paper'[1].applications = <<category'>>]_vars

\* Five lines are read: a first line, "## Oncology", a title line,
\* "## Cardiology" and a Methodology, Published or Summary line.  No record
\* is pending in Cardiology and the record begun in Oncology is as its title
\* line left it.
C12_Witness ==
  /\ pc = "section"
  /\ nlines = 5
  /\ category = "Cardiology"
  /\ orphanMeta = {"Cardiology"}
  /\ current_paper = <<>>
  /\ Len(papers) = 1
  /\ papers[1].applications = <<"Oncology">>
  /\ papers[1].methodologies = <<>>
  /\ papers[1].published = "" /\ papers[1].summary = ""
  /\ paper_id = 1

\* C13 as stated: in what a build returns, every entry of a record's
\* applications is in the aggregate applications and every entry of its
\* methodologies is in the aggregate methodologies.
C13_EveryTagInAggregate ==
  \A r \in Built : \A i \in DOMAIN Out(r).papers :
    /\ Range(Out(r).papers[i].applications) \subseteq Range(Out(r).applications)
    /\ Range(Out(r).papers[i].methodologies) \subseteq Range(Out(r).methodologies)

\* C13 amended: in what a build returns, every entry of a record's
\* applications is in the aggregate applications and is a row of the matrix,
\* and every entry of its methodologies other than the empty tag is in the
\* aggregate methodologies and is a column of every row of the matrix.
C13_EveryNonEmptyTagInAggregate ==
  \A r \in Built : \A i \in DOMAIN Out(r).papers :
    /\ Range(Out(r).papers[i].applications) \subseteq Range(Out(r).applications)
    /\ Range(Out(r).papers[i].applications) \subseteq DOMAIN Out(r).matrix
    /\ \A m \in Range(Out(r).papers[i].methodologies) \ {""} :
         /\ m \in Range(Out(r).methodologies)
         /\ \A a \in DOMAIN Out(r).matrix : m \in DOMAIN Out(r).matrix[a]

\* A build has returned two records of Oncology, the first with the tags
\* "Machine learning" and "NLME", the second with "NLME" and the empty tag
\* of the line "- Methodology: NLME,": the aggregate holds the two names and
\* not the empty tag.
C13_Witness ==
  /\ 1 \in Built
  /\ Len(Out(1).papers) = 2
  /\ Range(Out(1).papers[1].methodologies) = {"Machine learning", "NLME"}
  /\ Range(Out(1).papers[2].methodologies) = {"NLME", ""}
  /\ Out(1).papers[2].applications = <<"Oncology">>
  /\ Out(1).applications = <<"Oncology">>
  /\ Out(1).methodologies = <<"Machine learning", "NLME">>
====
